---------------------------- MODULE Spec2Model ----------------------------
(***************************************************************************)
(* A model of the code-runner MCP server (src/server.py, src/main.py).     *)
(*                                                                         *)
(* The state is the module-level system_args mapping, the DOCKER_HOST      *)
(* entry of os.environ, the position of main(), and one record per tool    *)
(* invocation.  A tool invocation is a coroutine: every action below is    *)
(* the code that runs between two suspension points of that coroutine      *)
(* (the only suspension point of execute is the await inside __cli_run).   *)
(*                                                                         *)
(* Text is modelled as it is in Python: the subprocess pipes carry bytes   *)
(* (sequences of 0..255), bytes.decode() turns them into a str (a sequence *)
(* of code points) or raises UnicodeDecodeError.  Argument vectors are     *)
(* sequences of TLA+ strings.  TimeoutError is the builtin one, which      *)
(* asyncio.wait_for raises on Python 3.11 and later.                       *)
(***************************************************************************)
EXTENDS Integers, Sequences, FiniteSets, TLC

(***************************************************************************)
(* Bounds of the model.                                                    *)
(***************************************************************************)
\* Number of tool invocations the calling layer makes; they may overlap.
MaxCalls == 1

\* Number of tool invocations in flight at once in the specification of
\* overlapping invocations, SpecConc.
MaxOverlap == 2

\* Number of lines a discovery command writes in the specification of the
\* line parser, SpecParse.
MaxLines == 3

(***************************************************************************)
(* Python values.                                                          *)
(***************************************************************************)
None == "<None>"

\* dict.get(key, default) on a mapping modelled as a TLA+ function.
DictGet(d, k, default) == IF k \in DOMAIN d THEN d[k] ELSE default

\* The empty dict(), server.py line 10.
EmptyDict == [k \in {} |-> None]

(***************************************************************************)
(* bytes.decode(): strict UTF-8.  The result is [ok, text]; ok = FALSE is  *)
(* UnicodeDecodeError.                                                     *)
(***************************************************************************)
IsCont(b) == b >= 128 /\ b <= 191

\* The number of bytes of the well-formed UTF-8 sequence that starts b, or 0
\* when no well-formed sequence starts there.
Utf8Len(b) ==
    LET n  == Len(b)
        b1 == b[1]
        c2 == n >= 2 /\ IsCont(b[2])
        c3 == n >= 3 /\ IsCont(b[3])
        c4 == n >= 4 /\ IsCont(b[4])
    IN  IF b1 < 128 THEN 1
        ELSE IF b1 >= 194 /\ b1 <= 223 THEN (IF c2 THEN 2 ELSE 0)
        ELSE IF b1 = 224 THEN (IF c2 /\ b[2] >= 160 /\ c3 THEN 3 ELSE 0)
        ELSE IF b1 = 237 THEN (IF c2 /\ b[2] <= 159 /\ c3 THEN 3 ELSE 0)
        ELSE IF b1 >= 225 /\ b1 <= 239 THEN (IF c2 /\ c3 THEN 3 ELSE 0)
        ELSE IF b1 = 240 THEN (IF c2 /\ b[2] >= 144 /\ c3 /\ c4 THEN 4 ELSE 0)
        ELSE IF b1 >= 241 /\ b1 <= 243 THEN (IF c2 /\ c3 /\ c4 THEN 4 ELSE 0)
        ELSE IF b1 = 244 THEN (IF c2 /\ b[2] <= 143 /\ c3 /\ c4 THEN 4 ELSE 0)
        ELSE 0

\* The code point of the well-formed sequence of k bytes that starts b.
Utf8CodePoint(b, k) ==
    IF k = 1 THEN b[1]
    ELSE IF k = 2 THEN (b[1] - 192) * 64 + (b[2] - 128)
    ELSE IF k = 3 THEN (b[1] - 224) * 4096 + (b[2] - 128) * 64 + (b[3] - 128)
    ELSE (b[1] - 240) * 262144 + (b[2] - 128) * 4096
             + (b[3] - 128) * 64 + (b[4] - 128)

\* The positions where a character starts: the bytes that continue none.
Leads(b) == {i \in 1..Len(b) : ~IsCont(b[i])}

\* The j-th smallest element of the set of positions S.
NthOf(S, j) == CHOOSE i \in S : Cardinality({x \in S : x <= i}) = j

\* The decoder reads one well-formed sequence after the other from the first
\* byte on.  A well-formed sequence is a byte that continues none followed by
\* the bytes that continue it, so b decodes exactly when its first byte
\* continues none and every such byte starts a well-formed sequence that ends
\* where the next one starts (or at the end of b).  Stated over positions
\* rather than by recursion on the rest of b, so that the depth of evaluation
\* does not grow with the output.
Decode(b) ==
    LET n       == Len(b)
        leads   == Leads(b)
        from(i) == SubSeq(b, i, IF i + 3 < n THEN i + 3 ELSE n)
        len     == [i \in leads |-> Utf8Len(from(i))]
        ok      == \/ n = 0
                   \/ /\ 1 \in leads
                      /\ \A i \in leads :
                            /\ len[i] > 0
                            /\ (i + len[i] <= n) => (i + len[i]) \in leads
        rank    == [i \in leads |-> Cardinality({x \in leads : x <= i})]
        cp      == [j \in 1..Cardinality(leads) |->
                       LET i == CHOOSE x \in leads : rank[x] = j
                       IN  Utf8CodePoint(from(i), len[i])]
    IN  \* bytes below 128 are one character each, of the same code point
        IF \A i \in 1..n : b[i] < 128 THEN [ok |-> TRUE, text |-> b]
        ELSE IF ok THEN [ok |-> TRUE, text |-> SubSeq(cp, 1, Cardinality(leads))]
        ELSE [ok |-> FALSE, text |-> <<>>]

(***************************************************************************)
(* The argument vectors execute builds.                                    *)
(***************************************************************************)
\* A faulty variant of lines 49-52 that emits "--env" once, before all the
\* entries, instead of once per entry.
RECURSIVE EnvFlagsOnce(_)
EnvFlagsOnce(env) ==
    IF env = <<>> THEN <<>>
    ELSE IF Len(env) = 1 THEN <<"--env", env[1][1] \o "=" \o env[1][2]>>
    ELSE LET rest == EnvFlagsOnce(Tail(env))
         IN  <<"--env", env[1][1] \o "=" \o env[1][2]>> \o Tail(rest)

\* server.py lines 49-52.  env is the dict in its iteration order: a sequence
\* of <<key, value>> pairs; f"{k}={v}" is string concatenation.
RECURSIVE EnvFlags(_)
EnvFlags(env) ==
    IF env = <<>> THEN <<>>
    ELSE <<"--env", env[1][1] \o "=" \o env[1][2]>> \o EnvFlags(Tail(env))

\* server.py line 55.
RunCmd(env, image, cmd) == <<"docker", "run">> \o EnvFlags(env) \o <<"--rm", image>> \o cmd

\* server.py line 57.
StartCmd(name) == <<"docker", "start", name>>

\* server.py line 63.
ExecCmd(env, name, cmd) == <<"docker", "exec">> \o EnvFlags(env) \o <<name>> \o cmd

\* The timeout of the pre-flight start, server.py line 58.
StartTimeout == 10


(***************************************************************************)
(* The line parser of get_python_modules, server.py lines 123-126.         *)
(***************************************************************************)
\* str.split("\n"): the pieces between the line feeds (always at least one),
\* stated over the positions of the line feeds.
SplitLines(text) ==
    LET nl     == {i \in 1..Len(text) : text[i] = 10}
        n      == Cardinality(nl)
        \* the line feed before piece j (0 for the first) and the one after it
        \* (Len(text) + 1 for the last)
        lo(j)  == IF j = 1 THEN 0 ELSE NthOf(nl, j - 1)
        hi(j)  == IF j = n + 1 THEN Len(text) + 1 ELSE NthOf(nl, j)
        pieces == [j \in 1..(n + 1) |-> SubSeq(text, lo(j) + 1, hi(j) - 1)]
    IN  SubSeq(pieces, 1, n + 1)

\* The code points \s matches in a str pattern.
IsSpace(c) ==
    \/ c \in 9..13
    \/ c \in 28..32
    \/ c \in {133, 160, 5760, 8232, 8233, 8239, 8287, 12288}
    \/ c \in 8192..8202

\* re.I on the letters of the pattern: an upper-case ASCII letter matches too.
Lower(c) == IF c \in 65..90 THEN c + 32 ELSE c

\* "python"
PyPrefix == <<112, 121, 116, 104, 111, 110>>

\* The longest prefix of s that holds no white space: what \S+ takes.
RECURSIVE NonSpaceRun(_)
NonSpaceRun(s) ==
    IF s = <<>> \/ IsSpace(Head(s)) THEN <<>>
    ELSE <<Head(s)>> \o NonSpaceRun(Tail(s))

\* re.search(r"^python3?-(\S+)\s*.*$", l, re.I): [matched, name], name being
\* group 1.  The line holds no line feed, so \s*.*$ matches whatever follows.
MatchLine(l) ==
    LET n     == Len(l)
        pre   == n >= 6 /\ \A i \in 1..6 : Lower(l[i]) = PyPrefix[i]
        dash  == IF pre /\ n >= 7 /\ l[7] = 45 THEN 7
                 ELSE IF pre /\ n >= 8 /\ l[7] = 51 /\ l[8] = 45 THEN 8
                 ELSE 0
        name  == IF dash = 0 THEN <<>> ELSE NonSpaceRun(SubSeq(l, dash + 1, n))
    IN  [matched |-> dash # 0 /\ name # <<>>, name |-> name]

\* A faulty variant of lines 124-126 that collects the names last line first.
RECURSIVE MatchedNamesReversed(_)
MatchedNamesReversed(lines) ==
    IF lines = <<>> THEN <<>>
    ELSE LET m == MatchLine(Head(lines))
         IN  MatchedNamesReversed(Tail(lines)) \o (IF m.matched THEN <<m.name>> ELSE <<>>)

\* Lines 124-126: group 1 of every line that matches, in the order of the lines.
RECURSIVE MatchedNames(_)
MatchedNames(lines) ==
    IF lines = <<>> THEN <<>>
    ELSE LET m == MatchLine(Head(lines))
         IN  (IF m.matched THEN <<m.name>> ELSE <<>>) \o MatchedNames(Tail(lines))

ParseModules(text) == MatchedNames(SplitLines(text))

\* The discovery candidates, server.py lines 117-120.
Cmds == << <<"apt-mark", "showmanual", "python3-*">>, <<"pacman", "-Qe">> >>

\* server.py line 91 and line 107.
PythonCmd(code) == <<"python", "-q", "-u", "-I", "-c", code>>
BashCmd(code) == <<"bash", "-c", code>>

(***************************************************************************)
(* Inputs of the model: what callers pass and what subprocesses produce.   *)
(***************************************************************************)
\* The container and the image of test_weather_operations, lines 139 and 155.
ConfName == "6eb5d7c81542"
ConfImage == "kali-code-runner"
ConfHost == "tcp://10.0.0.2:2375"

\* A name and an image a caller of execute may pass per call.
CallNames == {None, "other-container"}
CallImages == {None, "other-image"}

Codes == {"print('hello world')"}
Envs == { <<>>, << <<"A", "1">>, <<"B", "x y">> >> }
Timeouts == {16}
ModuleTimeouts == {15}

\* Bytes a subprocess may write.
NoBytes == <<>>
HelloBytes == <<104, 105, 10>>                        \* "hi\n"
ErrBytes == <<110, 111, 10>>                          \* "no\n"
BadBytes == <<104, 255>>                              \* not UTF-8
PkgBytes == <<112, 121, 116, 104, 111, 110, 51, 45, 97, 32, 49, 10,
              108, 105, 98, 99, 10,
              80, 121, 116, 104, 111, 110, 45, 98>>   \* "python3-a 1\nlibc\nPython-b"

\* What a subprocess may end with: [exit_code, stdout, stderr].
Outcomes ==
    { [exit_code |-> 0, stdout |-> HelloBytes, stderr |-> NoBytes],
      [exit_code |-> 0, stdout |-> PkgBytes,   stderr |-> ErrBytes],
      [exit_code |-> 0, stdout |-> BadBytes,   stderr |-> NoBytes],
      [exit_code |-> 1, stdout |-> HelloBytes, stderr |-> ErrBytes],
      [exit_code |-> 1, stdout |-> NoBytes,    stderr |-> NoBytes],
      [exit_code |-> 2, stdout |-> NoBytes,    stderr |-> BadBytes] }

(***************************************************************************)
(* The state.                                                              *)
(***************************************************************************)
VARIABLES
    system_args,    \* server.py line 10: the module-level mapping
    docker_host,    \* os.environ["DOCKER_HOST"], None when unset
    server,         \* main(): "init", "running", "usage_error", "ValueError"
    calls           \* one record per tool invocation

vars == <<system_args, docker_host, server, calls>>

CallIds == 1..MaxCalls

\* The invocations of SpecConc, and the records the state holds.
ConcIds == 1..MaxOverlap
Slots == CallIds \cup ConcIds

\* How a coroutine ended: by return (type "str", "list" or, for line 130,
\* "ToolError") or by raise (type the exception class, line the raise
\* statement).  msg is a literal message, text a decoded str, list a list of str.
NoResult == [how |-> "none", type |-> "", line |-> 0, msg |-> "", text |-> <<>>, list |-> <<>>]
Raised(type, line, msg, text) ==
    [how |-> "raise", type |-> type, line |-> line, msg |-> msg, text |-> text, list |-> <<>>]
ReturnedStr(text) ==
    [how |-> "return", type |-> "str", line |-> 70, msg |-> "", text |-> text, list |-> <<>>]
ReturnedList(list) ==
    [how |-> "return", type |-> "list", line |-> 126, msg |-> "", text |-> <<>>, list |-> list]
\* server.py line 130: the ToolError is returned, not raised.
NotFound ==
    [how |-> "return", type |-> "ToolError", line |-> 130, msg |-> "not found", text |-> <<>>, list |-> <<>>]

IdleCall ==
    [tool |-> "", pc |-> "idle", cmd |-> <<>>, env |-> <<>>, timeout |-> 0,
     argName |-> None, argImage |-> None, cand |-> 0,
     name |-> None, image |-> None,
     procs |-> <<>>, execs |-> <<>>, result |-> NoResult]

Init ==
    /\ system_args = EmptyDict
    /\ docker_host = None
    /\ server = "init"
    /\ calls = [c \in Slots |-> IdleCall]

(***************************************************************************)
(* execute, server.py lines 18-73, and the tool handlers around it.        *)
(***************************************************************************)
\* __cli_run lines 38-42: create_subprocess_exec; the coroutine then suspends
\* in wait_for (line 44).  role is "start" or "main", exec the number of the
\* execute call of this invocation that spawned it.
Spawn(rec, role, argv, timeout) ==
    [rec EXCEPT !.pc = role,
                !.procs = Append(@, [role |-> role, argv |-> argv, timeout |-> timeout,
                                     exec |-> Len(rec.execs) + 1,
                                     docker_host |-> docker_host,
                                     state |-> "running", outcome |-> <<>>])]

\* The subprocess the coroutine waits for.
Awaited(rec) == rec.procs[Len(rec.procs)]

\* The awaited subprocess exits with outcome o (communicate() and wait() return).
Exited(rec, o) ==
    [rec EXCEPT !.procs[Len(rec.procs)].state = "exited",
                !.procs[Len(rec.procs)].outcome = <<o>>]

RECURSIVE ExecuteEnter(_, _)
RECURSIVE ToolHandle(_, _)

\* A faulty variant of lines 121-130 whose except clause catches every
\* exception of a candidate, not only ExecuteException.
ToolHandleCatchAll(rec, res) ==
    LET r == [rec EXCEPT !.execs = Append(@, res)]
    IN  IF rec.tool # "get_python_modules"
        THEN [r EXCEPT !.pc = "done", !.result = res]
        ELSE IF res.how = "return"
        THEN [r EXCEPT !.pc = "done", !.result = ReturnedList(ParseModules(res.text))]
        ELSE IF rec.cand < Len(Cmds)
        THEN ExecuteEnter([r EXCEPT !.cand = rec.cand + 1,
                                    !.cmd = Cmds[rec.cand + 1]],
                          system_args)
        ELSE [r EXCEPT !.pc = "done", !.result = NotFound]

\* What the tool handler does with the end res of its execute call:
\* python_execute (line 93), bash_execute (line 108) and a direct caller pass it
\* on; get_python_modules (lines 121-130) parses a returned str, swallows an
\* ExecuteException and goes on to the next candidate, and returns
\* ToolError("not found") after the last one.
ToolHandle(rec, res) ==
    LET r == [rec EXCEPT !.execs = Append(@, res)]
    IN  IF rec.tool # "get_python_modules"
        THEN [r EXCEPT !.pc = "done", !.result = res]
        ELSE IF res.how = "return"
        THEN [r EXCEPT !.pc = "done", !.result = ReturnedList(ParseModules(res.text))]
        ELSE IF res.type = "ExecuteException"
        THEN IF rec.cand < Len(Cmds)
             THEN ExecuteEnter([r EXCEPT !.cand = rec.cand + 1,
                                         !.cmd = Cmds[rec.cand + 1]],
                               system_args)
             ELSE [r EXCEPT !.pc = "done", !.result = NotFound]
        ELSE [r EXCEPT !.pc = "done", !.result = res]

\* A faulty variant of lines 56-58 that skips the pre-flight start when an
\* earlier invocation has already started the container.
ExecuteEnterStartOnce(rec, sysargs) ==
    LET name  == DictGet(sysargs, "name", rec.argName)
        image == DictGet(sysargs, "image", rec.argImage)
        r     == [rec EXCEPT !.name = name, !.image = image]
        started == \E d \in DOMAIN calls : \E i \in 1..Len(calls[d].procs) :
                      /\ calls[d].procs[i].argv = StartCmd(name)
                      /\ calls[d].procs[i].outcome # <<>>
                      /\ calls[d].procs[i].outcome[1].exit_code = 0
    IN  IF name = None /\ image = None
        THEN ToolHandle(r, Raised("ToolError", 32, "Must set up a image or container.", <<>>))
        ELSE IF name = None
        THEN Spawn(r, "main", RunCmd(rec.env, image, rec.cmd), rec.timeout)
        ELSE IF started
        THEN Spawn(r, "main", ExecCmd(rec.env, name, rec.cmd), rec.timeout)
        ELSE Spawn(r, "start", StartCmd(name), StartTimeout)

\* A faulty variant of lines 54-63 that tests the image first: an image, when
\* there is one, wins over the name.
ExecuteEnterImageFirst(rec, sysargs) ==
    LET name  == DictGet(sysargs, "name", rec.argName)
        image == DictGet(sysargs, "image", rec.argImage)
        r     == [rec EXCEPT !.name = name, !.image = image]
    IN  IF name = None /\ image = None
        THEN ToolHandle(r, Raised("ToolError", 32, "Must set up a image or container.", <<>>))
        ELSE IF image # None
        THEN Spawn(r, "main", RunCmd(rec.env, image, rec.cmd), rec.timeout)
        ELSE Spawn(r, "start", StartCmd(name), StartTimeout)

\* A faulty variant of lines 29-63 without the check of lines 31-32.
ExecuteEnterUnchecked(rec, sysargs) ==
    LET name  == DictGet(sysargs, "name", rec.argName)
        image == DictGet(sysargs, "image", rec.argImage)
        r     == [rec EXCEPT !.name = name, !.image = image]
    IN  IF name = None
        THEN Spawn(r, "main", RunCmd(rec.env, image, rec.cmd), rec.timeout)
        ELSE Spawn(r, "start", StartCmd(name), StartTimeout)

\* execute from its entry to its first suspension, lines 29-63: the target is
\* resolved against sysargs, then the pre-flight start (a name) or the main
\* command (an image only) is spawned.
ExecuteEnter(rec, sysargs) ==
    LET name  == DictGet(sysargs, "name", rec.argName)
        image == DictGet(sysargs, "image", rec.argImage)
        r     == [rec EXCEPT !.name = name, !.image = image]
    IN  IF name = None /\ image = None
        THEN ToolHandle(r, Raised("ToolError", 32, "Must set up a image or container.", <<>>))
        ELSE IF name = None
        THEN Spawn(r, "main", RunCmd(rec.env, image, rec.cmd), rec.timeout)
        ELSE Spawn(r, "start", StartCmd(name), StartTimeout)

\* A faulty variant of lines 58-63 without the check of the exit code.
AfterStartUnchecked(rec, o) ==
    Spawn(rec, "main", ExecCmd(rec.env, rec.name, rec.cmd), rec.timeout)

\* Lines 58-63 after the pre-flight start exited with outcome o.
AfterStart(rec, o) ==
    IF o.exit_code # 0
    THEN IF o.stderr # <<>>
         THEN LET d == Decode(o.stderr)
              IN  IF d.ok
                  THEN ToolHandle(rec, Raised("ExecuteException", 61, "", d.text))
                  ELSE ToolHandle(rec, Raised("UnicodeDecodeError", 60, "", <<>>))
         ELSE ToolHandle(rec, Raised("ExecuteException", 61, "failed to start containers", <<>>))
    ELSE Spawn(rec, "main", ExecCmd(rec.env, rec.name, rec.cmd), rec.timeout)

\* Lines 66-70 after the main command exited with outcome o.
AfterMain(rec, o) ==
    IF o.exit_code # 0
    THEN LET d == Decode(o.stderr)
         IN  IF d.ok
             THEN ToolHandle(rec, Raised("ExecuteException", 69, "", d.text))
             ELSE ToolHandle(rec, Raised("UnicodeDecodeError", 69, "", <<>>))
    ELSE LET d == Decode(o.stdout)
         IN  IF d.ok
             THEN ToolHandle(rec, ReturnedStr(d.text))
             ELSE ToolHandle(rec, Raised("UnicodeDecodeError", 70, "", <<>>))

\* A faulty variant of line 44 that awaits proc.communicate() without
\* wait_for: the coroutine goes on waiting.
StartNeverTimedOut(rec) == rec

\* wait_for (line 44) raises TimeoutError in the pre-flight start, line 58:
\* no handler encloses that line, the TimeoutError leaves execute as it is.
\* Nothing terminates the subprocess.
StartTimedOut(rec) == ToolHandle(rec, Raised("TimeoutError", 44, "", <<>>))

\* A faulty variant of lines 65-73 without the except clause.
MainTimedOutUncaught(rec) == ToolHandle(rec, Raised("TimeoutError", 44, "", <<>>))

\* wait_for raises TimeoutError in the main command, line 66: lines 72-73 turn
\* it into ToolError("TimeoutError").  Nothing terminates the subprocess.
MainTimedOut(rec) == ToolHandle(rec, Raised("ToolError", 73, "TimeoutError", <<>>))

(***************************************************************************)
(* Startup: main(), main.py lines 6-25, and the in-process test driver.    *)
(***************************************************************************)
\* The command lines argparse is given: each option absent (None) or present.
CmdLines ==
    [name : {None, ConfName}, image : {None, ConfImage}, base_url : {None, ConfHost}]

\* Lines 9-14: -i, -n and --host are added to one mutually exclusive group.
GroupConflict(args) ==
    Cardinality({k \in {"name", "image", "base_url"} : args[k] # None}) > 1

\* vars(args), line 24: every dest is a key, None when the option is absent.
VarsOf(args) ==
    [k \in {"name", "image", "base_url"} |-> args[k]]

\* main() of main.py, from parse_args to mcp.run().
Main(args) ==
    /\ server = "init"
    /\ system_args = EmptyDict
    /\ \A c \in CallIds : calls[c].pc = "idle"
    /\ IF GroupConflict(args)
       THEN /\ server' = "usage_error"
            /\ UNCHANGED <<system_args, docker_host>>
       ELSE IF args.name = None /\ args.image = None
       THEN /\ server' = "ValueError"
            /\ UNCHANGED <<system_args, docker_host>>
       ELSE /\ docker_host' = IF args.base_url # None THEN args.base_url ELSE docker_host
            /\ system_args' = VarsOf(args)
            /\ server' = "running"
    /\ UNCHANGED calls

\* test_weather_operations, server.py line 139.
TestSetName ==
    /\ server = "init"
    /\ system_args = EmptyDict
    /\ system_args' = [k \in {"name"} |-> ConfName]
    /\ UNCHANGED <<docker_host, server, calls>>

\* test_weather_operations, server.py line 155, between two awaited calls.
TestSetImage ==
    /\ server = "init"
    /\ system_args = [k \in {"name"} |-> ConfName]
    /\ \A c \in CallIds : calls[c].pc \in {"idle", "done"}
    /\ system_args' = [k \in {"image"} |-> ConfImage]
    /\ UNCHANGED <<docker_host, server, calls>>

(***************************************************************************)
(* Tool invocations.                                                       *)
(***************************************************************************)
\* The calling layer starts invocation c (invocations are numbered in the
\* order they start).
CanCall(c) ==
    /\ server \in {"init", "running"}
    /\ calls[c].pc = "idle"
    /\ \A d \in 1..(c - 1) : calls[d].pc # "idle"

Begin(c, tool, cmd, env, timeout, name, image, cand) ==
    calls' = [calls EXCEPT ![c] =
                ExecuteEnter([IdleCall EXCEPT !.tool = tool, !.cmd = cmd, !.env = env,
                                              !.timeout = timeout, !.argName = name,
                                              !.argImage = image, !.cand = cand],
                             system_args)]

\* python_execute, server.py lines 77-93.
PythonExecute(c) ==
    /\ CanCall(c)
    /\ \E code \in Codes, env \in Envs, timeout \in Timeouts :
          Begin(c, "python_execute", PythonCmd(code), env, timeout, None, None, 0)
    /\ UNCHANGED <<system_args, docker_host, server>>

\* bash_execute, server.py lines 97-108.
BashExecute(c) ==
    /\ CanCall(c)
    /\ \E code \in Codes, env \in Envs, timeout \in Timeouts :
          Begin(c, "bash_execute", BashCmd(code), env, timeout, None, None, 0)
    /\ UNCHANGED <<system_args, docker_host, server>>

\* get_python_modules, server.py lines 112-123: the first candidate; env is the
\* default dict() of execute.
GetPythonModules(c) ==
    /\ CanCall(c)
    /\ \E timeout \in ModuleTimeouts :
          Begin(c, "get_python_modules", Cmds[1], <<>>, timeout, None, None, 1)
    /\ UNCHANGED <<system_args, docker_host, server>>

\* execute called with a name or an image of the call's own, lines 18-24.
Execute(c) ==
    /\ CanCall(c)
    /\ \E code \in Codes, env \in Envs, timeout \in Timeouts,
          name \in CallNames, image \in CallImages :
          Begin(c, "execute", BashCmd(code), env, timeout, name, image, 0)
    /\ UNCHANGED <<system_args, docker_host, server>>

\* The pre-flight start exits within its 10 s; lines 58-63 run.
StartExits(c) ==
    /\ calls[c].pc = "start"
    /\ \E o \in Outcomes :
          calls' = [calls EXCEPT ![c] = AfterStart(Exited(calls[c], o), o)]
    /\ UNCHANGED <<system_args, docker_host, server>>

\* The 10 s of the pre-flight start elapse while it runs.
StartTimesOut(c) ==
    /\ calls[c].pc = "start"
    /\ Awaited(calls[c]).state = "running"
    /\ calls' = [calls EXCEPT ![c] = StartTimedOut(calls[c])]
    /\ UNCHANGED <<system_args, docker_host, server>>

\* The main command exits within the timeout; lines 66-70 run.
MainExits(c) ==
    /\ calls[c].pc = "main"
    /\ \E o \in Outcomes :
          calls' = [calls EXCEPT ![c] = AfterMain(Exited(calls[c], o), o)]
    /\ UNCHANGED <<system_args, docker_host, server>>

\* A faulty variant of the timeout of the main command that terminates every
\* running subprocess of the server, not only the one waited for.
MainTimesOutKillsAll(c) ==
    /\ calls[c].pc = "main"
    /\ Awaited(calls[c]).state = "running"
    /\ calls' = [d \in DOMAIN calls |->
                    IF d = c THEN MainTimedOut(calls[c])
                    ELSE [calls[d] EXCEPT !.procs =
                            [i \in 1..Len(calls[d].procs) |->
                                [calls[d].procs[i] EXCEPT !.state = "exited"]]]]
    /\ UNCHANGED <<system_args, docker_host, server>>

\* The timeout of the call elapses while the main command runs.
MainTimesOut(c) ==
    /\ calls[c].pc = "main"
    /\ Awaited(calls[c]).state = "running"
    /\ calls' = [calls EXCEPT ![c] = MainTimedOut(calls[c])]
    /\ UNCHANGED <<system_args, docker_host, server>>

\* A subprocess nobody waits for any more ends on its own.
AbandonedExits(c) ==
    /\ \E i \in 1..Len(calls[c].procs) :
          /\ calls[c].procs[i].state = "running"
          /\ (calls[c].pc # "done") => (i < Len(calls[c].procs))
          /\ calls' = [calls EXCEPT ![c].procs[i].state = "exited"]
    /\ UNCHANGED <<system_args, docker_host, server>>

Next ==
    \/ \E args \in CmdLines : Main(args)
    \/ TestSetName
    \/ TestSetImage
    \/ \E c \in CallIds : PythonExecute(c)
    \/ \E c \in CallIds : BashExecute(c)
    \/ \E c \in CallIds : GetPythonModules(c)
    \/ \E c \in CallIds : Execute(c)
    \/ \E c \in CallIds : StartExits(c)
    \/ \E c \in CallIds : StartTimesOut(c)
    \/ \E c \in CallIds : MainExits(c)
    \/ \E c \in CallIds : MainTimesOut(c)
    \/ \E c \in CallIds : AbandonedExits(c)

Spec == Init /\ [][Next]_vars

(***************************************************************************)
(* Overlapping invocations: the server as test_weather_operations sets it  *)
(* up (a container, line 139, or an image, line 155), with MaxOverlap      *)
(* python_execute invocations that may be in flight together.              *)
(***************************************************************************)
InitConc ==
    /\ system_args \in {[k \in {"name"} |-> ConfName], [k \in {"image"} |-> ConfImage]}
    /\ docker_host = None
    /\ server = "init"
    /\ calls = [c \in Slots |-> IdleCall]

\* python_execute as the test calls it, lines 141-144: env is the default dict().
PythonExecuteDefaultEnv(c) ==
    /\ CanCall(c)
    /\ \E code \in Codes, timeout \in Timeouts :
          Begin(c, "python_execute", PythonCmd(code), <<>>, timeout, None, None, 0)
    /\ UNCHANGED <<system_args, docker_host, server>>

NextConc ==
    \/ \E c \in ConcIds : PythonExecuteDefaultEnv(c)
    \/ \E c \in ConcIds : StartExits(c)
    \/ \E c \in ConcIds : StartTimesOut(c)
    \/ \E c \in ConcIds : MainExits(c)
    \/ \E c \in ConcIds : MainTimesOut(c)
    \/ \E c \in ConcIds : AbandonedExits(c)

SpecConc == InitConc /\ [][NextConc]_vars

\* The event loop runs the timer of every wait_for (line 44): a timeout that
\* stays due is delivered.
TimerFairness ==
    \A c \in ConcIds : WF_vars(StartTimesOut(c)) /\ WF_vars(MainTimesOut(c))

SpecConcFair == SpecConc /\ TimerFairness

(***************************************************************************)
(* Vocabulary of the properties.                                           *)
(***************************************************************************)
\* The failure kinds of the error taxonomy, read off how an execute call (or a
\* tool invocation) ended: which statement raised which exception class.
Kind(res) ==
    IF res.how = "return" /\ res.type \in {"str", "list"} THEN "Success"
    ELSE IF res.how = "raise" /\ res.type = "ToolError" /\ res.line = 32
    THEN "MisconfiguredTarget"
    ELSE IF res.how = "raise" /\ res.type = "ExecuteException" /\ res.line = 61
    THEN "TargetStartFailed"
    ELSE IF res.how = "raise" /\ res.type = "ExecuteException" /\ res.line = 69
    THEN "ExecutionError"
    ELSE IF res.how = "raise" /\ res.type = "ToolError" /\ res.msg = "TimeoutError"
    THEN "Timeout"
    ELSE IF res.how = "raise" /\ res.type = "ToolError" /\ res.msg = "not found"
    THEN "NotFound"
    ELSE "Unclassified"

ProcIds(c) == 1..Len(calls[c].procs)

\* The execute call number p.exec of invocation c has ended.
ExecEnded(c, p) == Len(calls[c].execs) >= p.exec

\* Subprocess p was still running when its wait_for gave up: execute ended
\* without ever seeing p exit.
TimedOut(c, p) == ExecEnded(c, p) /\ p.outcome = <<>>

\* Subprocess p exited within its timeout and execute saw it.
Completed(p) == p.outcome # <<>>

\* The argv the tool handler passed to the execute call that spawned p.
BaseArgv(c, p) ==
    IF calls[c].tool = "get_python_modules" THEN Cmds[p.exec] ELSE calls[c].cmd

\* Invocation c starts in this step.
Begins(c) == calls[c].pc = "idle" /\ calls'[c].pc # "idle"

\* The startup configuration provides a value for key k.
Provides(sysargs, k) == k \in DOMAIN sysargs /\ sysargs[k] # None

(***************************************************************************)
(* C1.  Whenever a subprocess spawned by execute (the pre-flight start or  *)
(* the main command) exceeds its timeout, it has been terminated before    *)
(* the timeout error is surfaced: in no state has an execute call ended    *)
(* with a timeout while the subprocess it spawned is still running.        *)
(***************************************************************************)
C1_TimedOutSubprocessTerminated ==
    \A c \in CallIds : \A i \in ProcIds(c) :
        LET p == calls[c].procs[i]
        IN  TimedOut(c, p) => p.state # "running"

(***************************************************************************)
(* C2.  For a persistent-container target, within one execute call the     *)
(* `docker start <name>` pre-flight is issued first and has exited with    *)
(* code 0 before the `docker exec` invocation is issued; after a start     *)
(* that exits nonzero the call issues no exec invocation.                  *)
(***************************************************************************)
C2_StartPrecedesExec ==
    \A c \in CallIds : \A i \in ProcIds(c) :
        LET p == calls[c].procs[i]
            first == i = 1 \/ calls[c].procs[i - 1].exec # p.exec
        IN  /\ (calls[c].name # None /\ first) => p.argv = <<"docker", "start", calls[c].name>>
            /\ (p.argv[2] = "exec") =>
                  /\ i > 1
                  /\ LET q == calls[c].procs[i - 1]
                     IN  /\ q.exec = p.exec
                         /\ q.argv = <<"docker", "start", p.argv[3 + 2 * Len(calls[c].env)]>>
                         /\ q.state = "exited"
                         /\ Completed(q) /\ q.outcome[1].exit_code = 0
            /\ (p.argv[2] = "start" /\ Completed(p) /\ p.outcome[1].exit_code # 0) =>
                  \A j \in ProcIds(c) : j > i => calls[c].procs[j].exec # p.exec

\* An exec invocation has been issued after its start.
C2_Witness ==
    \E c \in CallIds : \E i \in ProcIds(c) :
        /\ calls[c].procs[i].argv[2] = "exec"
        /\ calls[c].procs[i - 1].argv[2] = "start"

(***************************************************************************)
(* C3.  A timeout of the 10 s pre-flight start always surfaces as          *)
(* TargetStartFailed, never as Timeout and never as an unclassified error. *)
(***************************************************************************)
C3_StartTimeoutIsTargetStartFailed ==
    \A c \in CallIds : \A i \in ProcIds(c) :
        LET p == calls[c].procs[i]
        IN  (p.argv[2] = "start" /\ TimedOut(c, p)) =>
                Kind(calls[c].execs[p.exec]) = "TargetStartFailed"

(***************************************************************************)
(* C4.  If the main command has not exited when the timeout of the call    *)
(* elapses, execute fails with Failure(Timeout, "TimeoutError"): a         *)
(* ToolError carrying "TimeoutError", which is also how the tool           *)
(* invocation ends, for the image target (run) and for the container       *)
(* target (exec) alike.  The main command was given the call's timeout.    *)
(***************************************************************************)
C4_MainTimeoutIsTimeout ==
    \A c \in CallIds : \A i \in ProcIds(c) :
        LET p == calls[c].procs[i]
        IN  (p.argv[2] \in {"run", "exec"} /\ TimedOut(c, p)) =>
                LET r == calls[c].execs[p.exec]
                IN  /\ r.how = "raise" /\ r.type = "ToolError" /\ r.msg = "TimeoutError"
                    /\ Kind(r) = "Timeout"
                    /\ p.timeout = calls[c].timeout
                    /\ calls[c].pc = "done" /\ calls[c].result = r

\* The exec of a container target timed out after a successful start.
C4_Witness ==
    \E c \in CallIds : \E i \in ProcIds(c) :
        /\ calls[c].procs[i].argv[2] = "exec"
        /\ TimedOut(c, calls[c].procs[i])
        /\ calls[c].procs[i].state = "running"

(***************************************************************************)
(* C5.  For every main-command outcome that completes within the timeout:  *)
(* exit code 0 yields Success carrying the decoded stdout, and every       *)
(* nonzero exit code yields Failure(ExecutionError) carrying the decoded   *)
(* stderr.                                                                 *)
(***************************************************************************)
C5_ExitCodeMapping ==
    \A c \in CallIds : \A i \in ProcIds(c) :
        LET p == calls[c].procs[i]
        IN  (p.argv[2] \in {"run", "exec"} /\ Completed(p) /\ ExecEnded(c, p)) =>
                LET o == p.outcome[1]
                    r == calls[c].execs[p.exec]
                IN  /\ (o.exit_code = 0) =>
                          (Kind(r) = "Success" /\ r.text = Decode(o.stdout).text)
                    /\ (o.exit_code # 0) =>
                          (Kind(r) = "ExecutionError" /\ r.text = Decode(o.stderr).text)

(***************************************************************************)
(* C6.  The main invocation execute builds is                              *)
(* [runtime, "run", ...envFlags, "--rm", image, ...argv] for an image      *)
(* target and [runtime, "exec", ...envFlags, name, ...argv] for a          *)
(* container target, where envFlags has exactly 2 x |env| elements         *)
(* alternating "--env" and "key=value" in the iteration order of env, and  *)
(* the base argv follows unchanged and in order.                           *)
(***************************************************************************)
C6_MainArgvShape ==
    \A c \in CallIds : \A i \in ProcIds(c) :
        LET p    == calls[c].procs[i]
            a    == p.argv
            env  == calls[c].env
            n    == Len(env)
            base == BaseArgv(c, p)
            verb == IF calls[c].name = None THEN "run" ELSE "exec"
            \* "run" is followed by "--rm" and the image, "exec" by the name
            mid  == IF calls[c].name = None THEN <<"--rm", calls[c].image>>
                    ELSE <<calls[c].name>>
            m    == Len(mid)
        IN  (p.role = "main") =>
                /\ Len(a) = 2 + 2 * n + m + Len(base)
                /\ a[1] = "docker" /\ a[2] = verb
                /\ \A j \in 1..n : /\ a[2 * j + 1] = "--env"
                                   /\ a[2 * j + 2] = env[j][1] \o "=" \o env[j][2]
                /\ \A j \in 1..m : a[2 + 2 * n + j] = mid[j]
                /\ \A j \in 1..Len(base) : a[2 + 2 * n + m + j] = base[j]

\* Both shapes have been built with a non-empty env: a run and, in another
\* invocation, an exec are reachable; this is the exec one.
C6_Witness ==
    \E c \in CallIds : \E i \in ProcIds(c) :
        /\ calls[c].procs[i].role = "main"
        /\ calls[c].procs[i].argv[2] = "exec"
        /\ Len(calls[c].env) = 2
        /\ Len(calls[c].procs[i].argv) = 10

\* The run shape with a non-empty env is reachable too.
C6_WitnessRun ==
    \E c \in CallIds : \E i \in ProcIds(c) :
        /\ calls[c].procs[i].argv[2] = "run"
        /\ Len(calls[c].env) = 2

(***************************************************************************)
(* C7.  execute ignores the per-call name and image in favour of the       *)
(* startup-configured target: whenever the startup configuration           *)
(* designates a target, a call issues the invocations that the same call   *)
(* without a per-call name and image issues (also when the configuration   *)
(* mapping holds only one of the two keys).                                *)
(***************************************************************************)
C7_PerCallTargetIgnored ==
    [][\A c \in CallIds :
          (Begins(c) /\ (Provides(system_args, "name") \/ Provides(system_args, "image"))) =>
              calls'[c].procs =
                  ExecuteEnter([calls'[c] EXCEPT !.argName = None, !.argImage = None,
                                                 !.pc = "idle", !.procs = <<>>,
                                                 !.execs = <<>>, !.result = NoResult],
                               system_args).procs]_vars

(***************************************************************************)
(* C8.  If neither the call nor the startup configuration provides a name  *)
(* or an image, execute fails with MisconfiguredTarget (the ToolError of   *)
(* line 32), the invocation ends with it, and the call has spawned no      *)
(* subprocess.                                                             *)
(***************************************************************************)
C8_MisconfiguredSpawnsNothing ==
    [][\A c \in CallIds :
          (/\ Begins(c)
           /\ calls'[c].argName = None /\ calls'[c].argImage = None
           /\ ~Provides(system_args, "name") /\ ~Provides(system_args, "image")) =>
              /\ calls'[c].pc = "done"
              /\ calls'[c].procs = <<>>
              /\ Kind(calls'[c].result) = "MisconfiguredTarget"
              /\ calls'[c].result.type = "ToolError"
              /\ calls'[c].execs = <<calls'[c].result>>]_vars

\* An invocation has ended with MisconfiguredTarget without a subprocess.
C8_Witness ==
    \E c \in CallIds :
        /\ calls[c].pc = "done"
        /\ Kind(calls[c].result) = "MisconfiguredTarget"
        /\ calls[c].procs = <<>>
        /\ calls[c].argName = None /\ calls[c].argImage = None

(***************************************************************************)
(* C9.  In get_python_modules, if every discovery candidate fails with an  *)
(* execution error (its command exits nonzero), the invocation fails with  *)
(* NotFound: it ends by raising a tool error, not by returning a value.    *)
(***************************************************************************)
C9_ExhaustionRaisesNotFound ==
    \A c \in CallIds :
        (/\ calls[c].tool = "get_python_modules"
         /\ Len(calls[c].execs) = Len(Cmds)
         /\ \A k \in 1..Len(Cmds) : Kind(calls[c].execs[k]) = "ExecutionError") =>
            /\ calls[c].pc = "done"
            /\ calls[c].result.how = "raise"
            /\ Kind(calls[c].result) = "NotFound"

(***************************************************************************)
(* C10.  In get_python_modules only a candidate's ExecutionError is        *)
(* swallowed: when the pre-flight start of a container target fails, the   *)
(* invocation ends with that TargetStartFailed, and no further candidate   *)
(* is run.                                                                 *)
(***************************************************************************)
C10_StartFailureSurfaces ==
    \A c \in CallIds : \A k \in 1..Len(calls[c].execs) :
        (/\ calls[c].tool = "get_python_modules"
         /\ Kind(calls[c].execs[k]) = "TargetStartFailed") =>
            /\ k = Len(calls[c].execs)
            /\ calls[c].pc = "done"
            /\ calls[c].result = calls[c].execs[k]
            /\ \A i \in ProcIds(c) : calls[c].procs[i].exec <= k

(***************************************************************************)
(* The line parser at work: get_python_modules against an image, its first *)
(* candidate exiting 0 with up to MaxLines lines on stdout.                *)
(***************************************************************************)
\* Lines a package manager may write, each with the names it stands for.
ListingLines ==
    { [line  |-> <<112, 121, 116, 104, 111, 110, 51, 45, 114, 101, 113, 117, 101,
                   115, 116, 115, 32, 49, 46, 48>>,        \* "python3-requests 1.0"
       names |-> << <<114, 101, 113, 117, 101, 115, 116, 115>> >>],
      [line  |-> <<108, 105, 98, 99, 54, 32, 50, 46, 51>>, \* "libc6 2.3"
       names |-> <<>>],
      [line  |-> <<112, 121, 116, 104, 111, 110, 51, 45, 110, 117, 109, 112, 121,
                   32, 49, 46, 50>>,                        \* "python3-numpy 1.2"
       names |-> << <<110, 117, 109, 112, 121>> >>],
      [line  |-> <<80, 89, 84, 72, 79, 78, 45, 98, 9, 120>>,  \* "PYTHON-b\tx"
       names |-> << <<98>> >>],
      [line  |-> <<112, 121, 116, 104, 111, 110, 51, 45, 32, 99>>,  \* "python3- c"
       names |-> <<>>] }

Listings == UNION {[1..n -> ListingLines] : n \in 0..MaxLines}

\* "\n".join of the lines, as bytes.
RECURSIVE ListingBytes(_)
ListingBytes(ls) ==
    IF ls = <<>> THEN <<>>
    ELSE IF Len(ls) = 1 THEN ls[1].line
    ELSE ls[1].line \o <<10>> \o ListingBytes(Tail(ls))

\* The names the lines of a listing stand for, in the order of the lines.
RECURSIVE ListingNames(_)
ListingNames(ls) ==
    IF ls = <<>> THEN <<>> ELSE ls[1].names \o ListingNames(Tail(ls))

ParseIds == {1}

InitParse ==
    /\ system_args = [k \in {"image"} |-> ConfImage]
    /\ docker_host = None
    /\ server = "init"
    /\ calls = [c \in Slots |-> IdleCall]

\* The discovery command exits 0 and has written the listing ls; lines 66-70
\* and 123-126 run.
ListingExits(c) ==
    /\ calls[c].pc = "main"
    /\ \E ls \in Listings :
          LET o == [exit_code |-> 0, stdout |-> ListingBytes(ls), stderr |-> NoBytes]
          IN  calls' = [calls EXCEPT ![c] = AfterMain(Exited(calls[c], o), o)]
    /\ UNCHANGED <<system_args, docker_host, server>>

NextParse ==
    \/ \E c \in ParseIds : GetPythonModules(c)
    \/ \E c \in ParseIds : ListingExits(c)

SpecParse == InitParse /\ [][NextParse]_vars

(***************************************************************************)
(* C12.  For every sequence of output lines of the successful discovery    *)
(* candidate, get_python_modules returns exactly the bare package names of *)
(* the lines that match, in the order of the lines, every other line       *)
(* discarded.                                                              *)
(***************************************************************************)
C12_NamesOfMatchingLinesInOrder ==
    \A c \in ParseIds : \A ls \in Listings :
        (/\ calls[c].pc = "done"
         /\ calls[c].procs[1].outcome[1].stdout = ListingBytes(ls)) =>
            /\ calls[c].result.how = "return"
            /\ calls[c].result.type = "list"
            /\ calls[c].result.list = ListingNames(ls)

\* The example of the specification: requests, libc6, numpy.
C12_Witness ==
    \E c \in ParseIds :
        /\ calls[c].pc = "done"
        /\ Len(SplitLines(calls[c].execs[1].text)) = 3
        /\ calls[c].result.list = << <<114, 101, 113, 117, 101, 115, 116, 115>>,
                                     <<110, 117, 109, 112, 121>> >>

(***************************************************************************)
(* C11.  get_python_modules runs the discovery candidates strictly in list *)
(* order, one at a time, and stops at the first candidate that succeeds    *)
(* (exit code 0): no later candidate is executed after a success, even     *)
(* when the output holds no matching line (the result is then the empty    *)
(* sequence), and candidate k+1 is executed only after candidate k has     *)
(* failed with an execution error.                                         *)
(***************************************************************************)
\* The last Len(t) elements of argv a are t.
EndsWith(a, t) ==
    Len(a) >= Len(t) /\ SubSeq(a, Len(a) - Len(t) + 1, Len(a)) = t

\* Candidate k of invocation c has been entered.
CandidateRun(c, k) ==
    \/ Len(calls[c].execs) >= k
    \/ \E i \in ProcIds(c) : calls[c].procs[i].exec = k

\* In list order, one at a time: the main command of the k-th execute call is
\* candidate k, and the k-th call is entered only once the one before ended.
C11_InOrder ==
    \A c \in CallIds : (calls[c].tool = "get_python_modules") =>
        /\ \A i \in ProcIds(c) :
              LET p == calls[c].procs[i]
              IN  /\ p.exec \in 1..Len(Cmds)
                  /\ (p.role = "main") => EndsWith(p.argv, Cmds[p.exec])
                  /\ (i > 1) => calls[c].procs[i - 1].exec <= p.exec
        /\ \A k \in 2..Len(Cmds) :
              CandidateRun(c, k) => Len(calls[c].execs) >= k - 1

\* The first candidate whose command exits 0 is the last one run, and what it
\* wrote decides the result: the empty list when no line matches.
C11_StopsAtSuccess ==
    \A c \in CallIds : (calls[c].tool = "get_python_modules") =>
        \A i \in ProcIds(c) :
            LET p == calls[c].procs[i]
            IN  (/\ p.role = "main" /\ Completed(p) /\ p.outcome[1].exit_code = 0
                 /\ ExecEnded(c, p)) =>
                    /\ calls[c].pc = "done"
                    /\ Len(calls[c].execs) = p.exec
                    /\ i = Len(calls[c].procs)
                    /\ (Kind(calls[c].execs[p.exec]) = "Success") =>
                          /\ calls[c].result.how = "return"
                          /\ calls[c].result.type = "list"
                          /\ (\A l \in 1..Len(SplitLines(calls[c].execs[p.exec].text)) :
                                  ~MatchLine(SplitLines(calls[c].execs[p.exec].text)[l]).matched)
                                => calls[c].result.list = <<>>

\* Candidate k+1 is run only after candidate k failed with an execution error.
C11_NextOnlyAfterExecutionError ==
    \A c \in CallIds : (calls[c].tool = "get_python_modules") =>
        \A k \in 2..Len(Cmds) :
            CandidateRun(c, k) => Kind(calls[c].execs[k - 1]) = "ExecutionError"

C11_CandidatesInOrder ==
    C11_InOrder /\ C11_StopsAtSuccess /\ C11_NextOnlyAfterExecutionError

(***************************************************************************)
(* C13.  No retries: one execute call spawns at most one pre-flight start  *)
(* and at most one main command, and once it has seen a timeout or a       *)
(* nonzero exit it spawns nothing more; in get_python_modules a            *)
(* candidate's Timeout ends the invocation with that Timeout and no later  *)
(* candidate is run.                                                       *)
(***************************************************************************)
C13_NoRetries ==
    \A c \in CallIds :
        /\ \A i \in ProcIds(c) : \A j \in ProcIds(c) :
              LET p == calls[c].procs[i]
                  q == calls[c].procs[j]
              IN  /\ (i # j /\ p.exec = q.exec) => p.argv[2] # q.argv[2]
                  /\ (/\ i < j /\ p.exec = q.exec) =>
                        /\ Completed(p) /\ p.outcome[1].exit_code = 0
                        /\ p.argv[2] = "start" /\ q.argv[2] = "exec"
        /\ \A k \in 1..Len(calls[c].execs) :
              (Kind(calls[c].execs[k]) = "Timeout") =>
                  /\ k = Len(calls[c].execs)
                  /\ calls[c].pc = "done"
                  /\ calls[c].result = calls[c].execs[k]
                  /\ \A i \in ProcIds(c) : calls[c].procs[i].exec <= k

\* The first candidate of get_python_modules timed out in its main command.
C13_Witness ==
    \E c \in CallIds :
        /\ calls[c].tool = "get_python_modules"
        /\ calls[c].pc = "done"
        /\ Len(calls[c].execs) = 1
        /\ Kind(calls[c].execs[1]) = "Timeout"
        /\ \E i \in ProcIds(c) : TimedOut(c, calls[c].procs[i])

(***************************************************************************)
(* C18.  When both a container name and an image are resolved for one      *)
(* call, the name takes precedence: execute starts the named container     *)
(* and then runs exec on it, and never issues a `run` on the image.        *)
(***************************************************************************)
C18_NameTakesPrecedence ==
    \A c \in CallIds :
        (calls[c].name # None /\ calls[c].image # None /\ calls[c].pc # "idle") =>
            /\ calls[c].procs # <<>>
            /\ \A i \in ProcIds(c) :
                  LET a == calls[c].procs[i].argv
                  IN  /\ a[2] \in {"start", "exec"}
                      /\ a[2] = "start" => a = <<"docker", "start", calls[c].name>>
                      /\ a[2] = "exec" => a[3 + 2 * Len(calls[c].env)] = calls[c].name
                      /\ \A j \in 1..Len(a) : a[j] # calls[c].image

\* Both were resolved, and the exec on the name has been issued.
C18_Witness ==
    \E c \in CallIds :
        /\ calls[c].name # None /\ calls[c].image # None
        /\ Len(calls[c].procs) = 2
        /\ calls[c].procs[2].argv[2] = "exec"

(***************************************************************************)
(* C19.  Decoding never crashes the bridge: for every subprocess that      *)
(* exited within its timeout, whatever bytes it wrote, execute ends in     *)
(* Success or in a failure of the taxonomy (TargetStartFailed,             *)
(* ExecutionError), never in a decoding error.                             *)
(***************************************************************************)
C19_DecodingNeverCrashes ==
    \A c \in CallIds : \A i \in ProcIds(c) :
        LET p == calls[c].procs[i]
        IN  (/\ Completed(p) /\ ExecEnded(c, p)
             /\ \A j \in ProcIds(c) : j > i => calls[c].procs[j].exec # p.exec) =>
                Kind(calls[c].execs[p.exec]) \in {"Success", "TargetStartFailed", "ExecutionError"}

(***************************************************************************)
(* C17.  Startup accepts every configuration that selects exactly one of   *)
(* container name and image, with or without the runtime-host override;    *)
(* when the override is given it is installed as DOCKER_HOST before the    *)
(* server runs, so every subprocess spawned afterwards inherits it; a      *)
(* configuration that selects neither is rejected before the server runs.  *)
(***************************************************************************)
ExactlyOneTarget(args) == (args.name = None) # (args.image = None)

C17_StartupAcceptsOneTarget ==
    [][\A args \in CmdLines : Main(args) =>
          /\ ExactlyOneTarget(args) =>
                /\ server' = "running"
                /\ system_args'["name"] = args.name
                /\ system_args'["image"] = args.image
                /\ (args.base_url # None) => docker_host' = args.base_url
          /\ (args.name = None /\ args.image = None) =>
                /\ server' # "running"
                /\ system_args' = system_args]_vars

\* The part of C17 the code keeps: one target and no override is accepted,
\* no target is rejected.
C17_WithoutOverride ==
    [][\A args \in CmdLines : Main(args) =>
          /\ (ExactlyOneTarget(args) /\ args.base_url = None) =>
                /\ server' = "running"
                /\ system_args' = VarsOf(args)
          /\ (args.name = None /\ args.image = None) =>
                /\ server' # "running"
                /\ system_args' = system_args]_vars

(***************************************************************************)
(* C14.  With two or more tool invocations in flight, a timeout in one     *)
(* invocation touches only that invocation: the step in which it times out *)
(* leaves every other invocation as it was, its subprocesses (none is      *)
(* terminated) and its result included.                                    *)
(***************************************************************************)
\* Invocation c gives up on the subprocess it waits for in this step.
TimesOutNow(c) ==
    /\ calls[c].pc \in {"start", "main"}
    /\ Len(calls'[c].execs) > Len(calls[c].execs)
    /\ calls'[c].procs[Len(calls[c].procs)].outcome = <<>>

C14_TimeoutTouchesOnlyItsOwn ==
    [][\A c \in ConcIds : TimesOutNow(c) =>
          \A d \in ConcIds : d # c => calls'[d] = calls[d]]_vars

\* One invocation has timed out while another waits for a running subprocess.
C14_Witness ==
    \E c \in ConcIds : \E d \in ConcIds :
        /\ c # d
        /\ \E i \in ProcIds(c) : TimedOut(c, calls[c].procs[i])
        /\ calls[d].pc \in {"start", "main"}
        /\ Awaited(calls[d]).state = "running"

(***************************************************************************)
(* C15.  Every execute call eventually completes with a result or a        *)
(* failure, even when the subprocess it spawned never exits: with the      *)
(* timers running, no call waits forever.                                  *)
(***************************************************************************)
C15_EveryCallCompletes ==
    \A c \in ConcIds : (calls[c].pc \in {"start", "main"}) ~> (calls[c].pc = "done")

\* A call has completed by timeout, its subprocess still running.
C15_Witness ==
    \E c \in ConcIds : \E i \in ProcIds(c) :
        /\ calls[c].pc = "done"
        /\ TimedOut(c, calls[c].procs[i])
        /\ calls[c].procs[i].state = "running"

(***************************************************************************)
(* C16.  Across the calls against one persistent container, every call     *)
(* issues the pre-flight start first, whether or not an earlier call has   *)
(* already started the container (nothing is cached or checked); and a     *)
(* call whose start and command both exit 0, as they do when the container *)
(* is already running, returns the text the command wrote to stdout.       *)
(***************************************************************************)
StartsFirst(c) ==
    (calls[c].pc # "idle" /\ Provides(system_args, "name")) =>
        /\ Len(calls[c].procs) >= 1
        /\ calls[c].procs[1].argv = <<"docker", "start", system_args["name"]>>
        /\ \A i \in ProcIds(c) : calls[c].procs[i].argv[2] # "run"

ReturnsStdout(c) ==
    (/\ Len(calls[c].procs) = 2
     /\ Completed(calls[c].procs[1]) /\ calls[c].procs[1].outcome[1].exit_code = 0
     /\ Completed(calls[c].procs[2]) /\ calls[c].procs[2].outcome[1].exit_code = 0
     /\ Decode(calls[c].procs[2].outcome[1].stdout).ok) =>
        /\ calls[c].pc = "done"
        /\ calls[c].result.how = "return" /\ calls[c].result.type = "str"
        /\ calls[c].result.text = Decode(calls[c].procs[2].outcome[1].stdout).text

\* system_args does not change in SpecConc: the configuration read here is
\* the one every call was made under.
C16_EveryCallStartsContainer ==
    \A c \in ConcIds : StartsFirst(c) /\ ReturnsStdout(c)

\* Two calls against the container have both started it and returned stdout.
C16_Witness ==
    /\ \A c \in {1, 2} :
          /\ calls[c].pc = "done"
          /\ Kind(calls[c].result) = "Success"
          /\ calls[c].procs[1].argv = <<"docker", "start", ConfName>>
          /\ calls[c].result.text = <<104, 105, 10>>


=============================================================================
